---- MODULE Spec2Model ----
(***************************************************************************)
(* Model of the dispatch core of servicenow_mcp/server.py: the package     *)
(* configuration loader, the package resolver, list_tools and call_tool.   *)
(*                                                                         *)
(* Strings that go through str.strip() are sequences of tokens: the token  *)
(* " " is one whitespace character, every other token is a run of          *)
(* non-whitespace characters.  A package name such as "full" is the        *)
(* one-token string <<"full">>.                                            *)
(***************************************************************************)
EXTENDS Integers, Sequences, FiniteSets, TLC

\* ------------------------------------------------------------------ bounds
MaxEnvLen == 2      \* longest MCP_TOOL_PACKAGE value, in tokens
MaxListLen == 1     \* longest operation list of a package in the YAML file
MaxKeys == 2        \* most packages in the YAML file
MaxPairs == 2       \* most members of a dict or of a JSON object text
MaxEnumListLen == 2 \* longest operation list of the enumeration scenarios
MaxCases == 2       \* most records in the backend's 'result' list

\* ------------------------------------------------------- universe of inputs
WS == " "
PackageKeys == {"full", "none", "read_only"}
EnvTokens == PackageKeys \cup {WS}
UnknownTool == "ghost_tool"

\* A YAML key that yaml.safe_load resolves to a datetime.date, not to a str.
DateKey == "date(2024, 1, 1)"
\* The environment variable: not set, or set to a string.
Unset == [set |-> FALSE, value |-> <<>>]
SetTo(s) == [set |-> TRUE, value |-> s]

\* Every sequence over S of length at most n.
SeqUpTo(S, n) == UNION {[1..k -> S] : k \in 0..n}

\* Values of MCP_TOOL_PACKAGE: unset, or a string with at most one
\* non-whitespace token.
EnvValues ==
    {Unset} \cup {SetTo(s) : s \in
                     {t \in SeqUpTo(EnvTokens, MaxEnvLen) :
                         Cardinality({i \in DOMAIN t : t[i] # WS}) <= 1}}

\* ------------------------------------------------------------- the registry
\* The first operations of the dict literal of get_tool_definitions, in
\* insertion order.  "list_tool_packages" is not a key of that dict.
get_tool_definitions == <<"create_incident", "update_incident">>

IntrospectionName == "list_tool_packages"

RegistryNames == {get_tool_definitions[i] : i \in DOMAIN get_tool_definitions}

\* Names a call can ask for: the registry, a name outside it, the reserved one.
CallNames == RegistryNames \cup {UnknownTool, IntrospectionName}

\* Names a package of the YAML file can list: a registry operation and a name
\* that is not in the registry.
ListedNames == {get_tool_definitions[1], UnknownTool}

\* ------------------------------------------------ values of the YAML mapping
\* What yaml.safe_load can put under a package key: a list of names, null,
\* an integer scalar, or a string scalar.
ListValue(items) == [kind |-> "list", items |-> items]
NullValue == [kind |-> "null", items |-> <<>>]
IntValue == [kind |-> "int", items |-> <<>>]
StrValue(name) == [kind |-> "str", items |-> <<name>>]

PkgValues ==
    {ListValue(l) : l \in SeqUpTo(ListedNames, MaxListLen)}
        \cup {NullValue, IntValue}
        \cup {StrValue(get_tool_definitions[1])}

\* A top-level YAML mapping: package name -> value.
Mappings ==
    UNION {[K -> PkgValues] :
              K \in {J \in SUBSET PackageKeys : Cardinality(J) <= MaxKeys}}
EmptyMapping == [k \in {} |-> NullValue]

\* What opening and parsing the configuration file can do.
LoadFailures == {"FileNotFoundError", "YAMLError", "Exception", "not_a_dict"}
ConfigFiles ==
    {[outcome |-> "dict", content |-> m] : m \in Mappings}
        \cup {[outcome |-> f, content |-> EmptyMapping] : f \in LoadFailures}

\* ------------------------------------------------------- Python primitives
\* len(v): defined for lists and strings, TypeError for None and int.
HasLen(v) == v.kind \in {"list", "str"}

\* name in v, for a list (element equality) or a string (substring test; no
\* name of the universe is a proper substring of another one).
Contains(v, name) == \E i \in DOMAIN v.items : v.items[i] = name

\* str.strip()
RECURSIVE LStrip(_)
LStrip(s) == IF s # <<>> /\ Head(s) = WS THEN LStrip(Tail(s)) ELSE s

RECURSIVE RStrip(_)
RStrip(s) ==
    IF s # <<>> /\ s[Len(s)] = WS THEN RStrip(SubSeq(s, 1, Len(s) - 1)) ELSE s

Strip(s) == RStrip(LStrip(s))

\* Variant that does not strip the value of the variable.
RequestedPackage_NoStrip(env) == IF env.set THEN env.value ELSE <<"full">>

\* os.getenv("MCP_TOOL_PACKAGE", "full").strip()
RequestedPackage(env) == Strip(IF env.set THEN env.value ELSE <<"full">>)

\* ------------------------------------------------------ _load_package_config
\* Variant of the loader that has no handler for a missing file.
LoadPackageConfig_NoFileHandler(file) ==
    [definitions |-> IF file.outcome = "dict" THEN file.content ELSE EmptyMapping,
     raised |-> IF file.outcome = "FileNotFoundError"
                THEN "FileNotFoundError" ELSE "none"]

\* The definitions the method leaves in self.package_definitions, and the
\* exception that leaves the method: every failure is caught and logged.
LoadPackageConfig(file) ==
    [definitions |-> IF file.outcome = "dict" THEN file.content ELSE EmptyMapping,
     raised |-> "none"]

\* --------------------------------------------------- _determine_enabled_tools
\* The name chosen by the if / elif / else on the stripped identifier.
ChoosePackageName(requested, definitions) ==
    IF requested = <<>> THEN "full"
    ELSE IF Len(requested) = 1 /\ requested[1] \in DOMAIN definitions
         THEN requested[1]
         ELSE "none"

\* dict.get(current_package_name, []) when the mapping is non-empty, else [].
ChooseEnabledTools(name, definitions) ==
    IF DOMAIN definitions # {}
    THEN IF name \in DOMAIN definitions THEN definitions[name]
                                        ELSE ListValue(<<>>)
    ELSE ListValue(<<>>)

\* The whole method: both assignments, then the log line that evaluates
\* len(self.enabled_tool_names).
DetermineEnabledTools(env, definitions) ==
    LET name == ChoosePackageName(RequestedPackage(env), definitions)
        enabled == ChooseEnabledTools(name, definitions)
    IN  [current_package_name |-> name,
         enabled_tool_names |-> enabled,
         raised |-> IF HasLen(enabled) THEN "none" ELSE "TypeError"]

\* ------------------------------------------------------ call inputs, backend
\* The arguments of a call, named by what the parameter model does with them.
Arguments == {"valid", "fails_validation", "breaks_parsing"}

\* params_model(**arguments): the parsed parameters, a pydantic
\* ValidationError, or another exception (for instance a TypeError).
ParamsModel(name, arguments) ==
    CASE arguments = "valid" ->
            [raised |-> "none", str |-> ""]
      [] arguments = "fails_validation" ->
            [raised |-> "ValidationError", str |-> "field required"]
      [] arguments = "breaks_parsing" ->
            [raised |-> "TypeError", str |-> "argument after ** must be a mapping"]

\* ------------------------------------------------------------ texts, JSON
\* A string.  form "verbatim": characters that are not JSON (details holds
\* them); "json": a JSON object laid out as json.dumps(..., indent=2) does;
\* "json_compact": a JSON object in another layout; "error_envelope": the
\* indent-2 JSON object {"error": ... tool ..., "details": details}.  pairs
\* are the <<key text, value>> members of a JSON object, in order; a JSON text
\* can repeat a key.
Text(form, tool, details) ==
    [form |-> form, tool |-> tool, details |-> details, pairs |-> <<>>]
NoText == Text("none", "", "")
Verbatim(chars) == Text("verbatim", "", chars)
JsonObject(form, pairs) ==
    [form |-> form, tool |-> "", details |-> "", pairs |-> pairs]

\* Exceptions: the type and str(e).
Exc(type, msg) == [type |-> type, msg |-> msg]
NoException == Exc("none", "")

\* Keys of a Python dict: the int 1, the str "1", the str "a".
PyKey(t, v) == [t |-> t, v |-> v]
PyKeys == {PyKey("int", "1"), PyKey("str", "1"), PyKey("str", "a")}

\* Values: two JSON-renderable strings and a Python set, which json.dumps
\* cannot render.
PySet == "<set>"
PyValues == {"x", "y", PySet}

\* json.dumps turns an int key into its decimal text and keeps a str key.
KeyText(key) == key.v

\* json.dumps(mapping, indent=2).  A mapping is a sequence of <<key, value>>
\* with distinct keys, in insertion order.
JsonDumps(mapping) ==
    IF \E i \in DOMAIN mapping : mapping[i][2] = PySet
    THEN [raised |-> Exc("TypeError",
                         "Object of type set is not JSON serializable"),
          text |-> NoText]
    ELSE [raised |-> NoException,
          text |-> JsonObject("json",
                     [i \in DOMAIN mapping |->
                         <<KeyText(mapping[i][1]), mapping[i][2]>>])]

\* json.loads of a JSON object text: a dict with str keys; a repeated key
\* keeps the place of its first member and the value of its last one.
JsonLoads(pairs) ==
    LET first == SelectSeq([i \in DOMAIN pairs |-> i],
                    LAMBDA i : \A j \in 1..(i - 1) : pairs[j][1] # pairs[i][1])
        last(k) == CHOOSE i \in DOMAIN pairs :
                      /\ pairs[i][1] = k
                      /\ \A j \in DOMAIN pairs : pairs[j][1] = k => j <= i
    IN  [n \in DOMAIN first |->
            <<PyKey("str", pairs[first[n]][1]),
              pairs[last(pairs[first[n]][1])][2]>>]

\* ------------------------------------------------------------- raw results
\* A raw result of an implementation function.
\*   type      "str", "dict", "object" (anything else)
\*   text      the string itself, or what str(result) returns
\*   mapping   the dict itself, or what model_dump() / dict() return
\*   methods   which of model_dump_json, model_dump, dict the object has
\*   dump_json what model_dump_json(indent=2) does: "ok", "TypeError" (indent
\*             not supported) or "raises" (exc)
\*   convert   what model_dump() / dict() / str() do: "ok" or "raises" (exc)
Raw(type, text, mapping, methods, dump_json, convert, exc) ==
    [type |-> type, text |-> text, mapping |-> mapping, methods |-> methods,
     dump_json |-> dump_json, convert |-> convert, exc |-> exc]

StrResult(text) == Raw("str", text, <<>>, {}, "ok", "ok", NoException)
DictResult(mapping) == Raw("dict", NoText, mapping, {}, "ok", "ok", NoException)

\* Raw results of an implementation function.
PlainText == StrResult(Verbatim("Incident created"))
BadDict == DictResult(<< <<PyKey("str", "a"), PySet>> >>)
RawResults == {PlainText, BadDict}

\* impl_func(config, auth_manager, params): returns a raw result or raises.
BackendBehaviours ==
    {[kind |-> "returns", value |-> r, str |-> ""] : r \in RawResults}
        \cup {[kind |-> "raises", value |-> PlainText, str |-> "connection refused"]}

\* impl_func was not called.
NotCalled == [kind |-> "not_called", value |-> PlainText, str |-> ""]

\* ----------------------------------------------------- serialize_tool_output
Converted(text) == [raised |-> NoException, text |-> text]
Failed(exc) == [raised |-> exc, text |-> NoText]

\* json.dumps(result.<method>(), indent=2) for model_dump or dict.
DumpConverted(result) ==
    IF result.convert = "raises" THEN Failed(result.exc)
    ELSE JsonDumps(result.mapping)

\* Variant whose string branch re-renders the parsed text without indent=2.
SerializeBody_CompactRedump(result) ==
    CASE result.type = "str" ->
            IF result.text.form \in {"json", "json_compact"}
            THEN LET dumped == JsonDumps(JsonLoads(result.text.pairs))
                 IN  [dumped EXCEPT !.text.form = "json_compact"]
            ELSE Converted(result.text)
      [] result.type = "dict" -> JsonDumps(result.mapping)
      [] result.type = "object" /\ "model_dump_json" \in result.methods ->
           (CASE result.dump_json = "ok" ->
                    Converted(JsonObject("json",
                        [i \in DOMAIN result.mapping |->
                            <<KeyText(result.mapping[i][1]),
                              result.mapping[i][2]>>]))
              [] result.dump_json = "raises" -> Failed(result.exc)
              [] result.dump_json = "TypeError" ->
                    IF "model_dump" \in result.methods
                    THEN DumpConverted(result)
                    ELSE Failed(Exc("AttributeError",
                                    "object has no attribute 'model_dump'")))
      [] result.type = "object" /\ "model_dump_json" \notin result.methods
            /\ result.methods # {} -> DumpConverted(result)
      [] OTHER ->
            IF result.convert = "raises" THEN Failed(result.exc)
            ELSE Converted(result.text)

\* The body of the outer try (lines 38-68): the string it returns, or the
\* exception that leaves it.
SerializeBody(result) ==
    CASE result.type = "str" ->
            IF result.text.form \in {"json", "json_compact"}
            THEN JsonDumps(JsonLoads(result.text.pairs))
            ELSE Converted(result.text)
      [] result.type = "dict" -> JsonDumps(result.mapping)
      [] result.type = "object" /\ "model_dump_json" \in result.methods ->
           (CASE result.dump_json = "ok" ->
                    Converted(JsonObject("json",
                        [i \in DOMAIN result.mapping |->
                            <<KeyText(result.mapping[i][1]),
                              result.mapping[i][2]>>]))
              [] result.dump_json = "raises" -> Failed(result.exc)
              [] result.dump_json = "TypeError" ->
                    IF "model_dump" \in result.methods
                    THEN DumpConverted(result)
                    ELSE Failed(Exc("AttributeError",
                                    "object has no attribute 'model_dump'")))
      [] result.type = "object" /\ "model_dump_json" \notin result.methods
            /\ result.methods # {} -> DumpConverted(result)
      [] OTHER ->
            IF result.convert = "raises" THEN Failed(result.exc)
            ELSE Converted(result.text)

\* What the call gives back: a returned string, or an exception.
Returned(text) == [outcome |-> "return", text |-> text, error |-> NoException]
Escaped(exc) == [outcome |-> "raise", text |-> NoText, error |-> exc]

\* Variant without the outer try/except: an exception of the body leaves
\* the function.
serialize_tool_output_NoHandler(result, tool_name) ==
    LET body == SerializeBody(result)
    IN  IF body.raised.type # "none" THEN Escaped(body.raised)
        ELSE Returned(body.text)

serialize_tool_output(result, tool_name) ==
    LET body == SerializeBody(result)
    IN  IF body.raised.type # "none"
        THEN Returned(Text("error_envelope", tool_name, body.raised.msg))
        ELSE Returned(body.text)

\* ---------------------------------------------------------------- responses
\* What a handler call gave back, with the request it answered.  For a raise:
\* the exception type, the message template, the tool name and the cause
\* formatted into the message.  executed counts the calls of impl_func and
\* backend is what impl_func did when it was called; schema_fails are the
\* operations whose schema generation failed during a list_tools call.
Request(name, arguments) == [name |-> name, arguments |-> arguments]
NoRequest == Request("", "")

Return(op, request, executed, tools, text) ==
    [op |-> op, request |-> request, outcome |-> "return", error |-> "",
     message |-> "", tool |-> "", detail |-> "", executed |-> executed,
     backend |-> NotCalled, tools |-> tools, text |-> text,
     schema_fails |-> {}]

Raise(op, request, error, message, tool, detail, executed) ==
    [op |-> op, request |-> request, outcome |-> "raise", error |-> error,
     message |-> message, tool |-> tool, detail |-> detail,
     executed |-> executed, backend |-> NotCalled, tools |-> <<>>,
     text |-> NoText, schema_fails |-> {}]

NoResponse ==
    [op |-> "none", request |-> NoRequest, outcome |-> "none", error |-> "",
     message |-> "", tool |-> "", detail |-> "", executed |-> 0,
     backend |-> NotCalled, tools |-> <<>>, text |-> NoText,
     schema_fails |-> {}]

\* name in self.tool_definitions
InRegistry(registry, name) == \E i \in DOMAIN registry : registry[i] = name

\* ------------------------------------------------------------ _list_tools_impl
\* Variant that walks the package's list instead of the registry.
ListedTools_PackageOrder(current, enabled, registry, schema_fails) ==
    (IF current # "none" THEN <<IntrospectionName>> ELSE <<>>)
        \o SelectSeq(enabled.items,
                     LAMBDA n : InRegistry(registry, n) /\ n \notin schema_fails)

\* Variant that appends the introspection entry after the registry entries.
ListedTools_IntrospectionLast(current, enabled, registry, schema_fails) ==
    SelectSeq(registry, LAMBDA n : Contains(enabled, n) /\ n \notin schema_fails)
        \o (IF current # "none" THEN <<IntrospectionName>> ELSE <<>>)

\* The names of the returned types.Tool entries, in order.  schema_fails is
\* the set of operations whose params_model.model_json_schema() raises.
ListedTools(current, enabled, registry, schema_fails) ==
    (IF current # "none" THEN <<IntrospectionName>> ELSE <<>>)
        \o SelectSeq(registry,
                     LAMBDA n : Contains(enabled, n) /\ n \notin schema_fails)

\* Variant without the try/except around the construction of an entry: the
\* first failing schema ends the enumeration.
ListToolsImpl_SchemaErrorPropagates(current, enabled, registry, schema_fails) ==
    IF registry # <<>> /\ ~HasLen(enabled)
    THEN Raise("list_tools", NoRequest, "TypeError", "is not iterable", "", "", 0)
    ELSE IF \E i \in DOMAIN registry :
                Contains(enabled, registry[i]) /\ registry[i] \in schema_fails
    THEN [Raise("list_tools", NoRequest, "Exception", "", "", "", 0)
             EXCEPT !.schema_fails = schema_fails]
    ELSE [Return("list_tools", NoRequest, 0,
                 ListedTools(current, enabled, registry, schema_fails), NoText)
             EXCEPT !.schema_fails = schema_fails]

ListToolsImpl(current, enabled, registry, schema_fails) ==
    IF registry # <<>> /\ ~HasLen(enabled)
    THEN Raise("list_tools", NoRequest, "TypeError", "is not iterable", "", "", 0)
    ELSE [Return("list_tools", NoRequest, 0,
                 ListedTools(current, enabled, registry, schema_fails), NoText)
             EXCEPT !.schema_fails = schema_fails]

\* ------------------------------------------------------ _list_tool_packages_impl
\* Variant that reports the names of PackageKeys instead of the keys of the
\* loaded definitions.
ListToolPackagesImpl_FixedNames(current, definitions) ==
    [current_package |-> current, available_packages |-> PackageKeys]

\* The current_package and available_packages members of the returned dict.
ListToolPackagesImpl(current, definitions) ==
    [current_package |-> current, available_packages |-> DOMAIN definitions]

\* ------------------------------------------------------------- _call_tool_impl
\* json.dumps renders str keys of the definitions (as members of the
\* available_packages list); it raises TypeError for a datetime.date.
JsonRenderable(key) == key # DateKey

\* The introspection branch (lines 240-248): json.dumps is called outside
\* serialize_tool_output and outside any try.
CallIntrospection(current, definitions, request) ==
    IF current = "none"
    THEN Raise("call_tool", request, "ValueError",
               "is not available in the 'none' package", request.name, "", 0)
    ELSE IF \E key \in DOMAIN definitions : ~JsonRenderable(key)
    THEN Raise("call_tool", request, "TypeError", "", "",
               "Object of type date is not JSON serializable", 0)
    ELSE Return("call_tool", request, 0, <<>>,
                Text("json", "", ListToolPackagesImpl(current, definitions)))

\* Variant that handles only the pydantic ValidationError of the parameter
\* model and lets any other exception of the parsing step through.
ExecuteTool_OnlyValidationError(request, backend) ==
    LET name == request.name
        params == ParamsModel(name, request.arguments)
    IN  IF params.raised = "ValidationError"
        THEN Raise("call_tool", request, "ValueError",
                   "Invalid arguments for tool", name, params.str, 0)
        ELSE IF params.raised # "none"
        THEN Raise("call_tool", request, params.raised, "", "", params.str, 0)
        ELSE IF backend.kind = "raises"
        THEN [Raise("call_tool", request, "RuntimeError",
                    "Error during execution of tool", name, backend.str, 1)
                 EXCEPT !.backend = backend]
        ELSE LET out == serialize_tool_output(backend.value, name)
             IN  IF out.outcome = "raise"
                 THEN [Raise("call_tool", request, out.error.type, "", "",
                             out.error.msg, 1)
                          EXCEPT !.backend = backend]
                 ELSE [Return("call_tool", request, 1, <<>>, out.text)
                          EXCEPT !.backend = backend]

\* Variant without the try/except around impl_func: the implementation's
\* exception leaves the handler as it is.
ExecuteTool_NoExecutionHandler(request, backend) ==
    LET name == request.name
        params == ParamsModel(name, request.arguments)
    IN  IF params.raised = "ValidationError"
        THEN Raise("call_tool", request, "ValueError",
                   "Invalid arguments for tool", name, params.str, 0)
        ELSE IF params.raised # "none"
        THEN Raise("call_tool", request, "ValueError",
                   "Failed to parse arguments for tool", name, params.str, 0)
        ELSE IF backend.kind = "raises"
        THEN [Raise("call_tool", request, "ConnectionError", "", "",
                    backend.str, 1)
                 EXCEPT !.backend = backend]
        ELSE LET out == serialize_tool_output(backend.value, name)
             IN  IF out.outcome = "raise"
                 THEN [Raise("call_tool", request, out.error.type, "", "",
                             out.error.msg, 1)
                          EXCEPT !.backend = backend]
                 ELSE [Return("call_tool", request, 1, <<>>, out.text)
                          EXCEPT !.backend = backend]

\* Variant that calls impl_func before it parses the arguments.
ExecuteTool_ExecuteBeforeParsing(request, backend) ==
    LET name == request.name
        params == ParamsModel(name, request.arguments)
    IN  IF params.raised = "ValidationError"
        THEN [Raise("call_tool", request, "ValueError",
                    "Invalid arguments for tool", name, params.str, 1)
                 EXCEPT !.backend = backend]
        ELSE IF params.raised # "none"
        THEN [Raise("call_tool", request, "ValueError",
                    "Failed to parse arguments for tool", name, params.str, 1)
                 EXCEPT !.backend = backend]
        ELSE IF backend.kind = "raises"
        THEN [Raise("call_tool", request, "RuntimeError",
                    "Error during execution of tool", name, backend.str, 1)
                 EXCEPT !.backend = backend]
        ELSE LET out == serialize_tool_output(backend.value, name)
             IN  IF out.outcome = "raise"
                 THEN [Raise("call_tool", request, out.error.type, "", "",
                             out.error.msg, 1)
                          EXCEPT !.backend = backend]
                 ELSE [Return("call_tool", request, 1, <<>>, out.text)
                          EXCEPT !.backend = backend]

\* Argument parsing, execution and serialization of an enabled operation
\* (lines 258-288).
ExecuteTool(request, backend) ==
    LET name == request.name
        params == ParamsModel(name, request.arguments)
    IN  IF params.raised = "ValidationError"
        THEN Raise("call_tool", request, "ValueError",
                   "Invalid arguments for tool", name, params.str, 0)
        ELSE IF params.raised # "none"
        THEN Raise("call_tool", request, "ValueError",
                   "Failed to parse arguments for tool", name, params.str, 0)
        ELSE IF backend.kind = "raises"
        THEN [Raise("call_tool", request, "RuntimeError",
                    "Error during execution of tool", name, backend.str, 1)
                 EXCEPT !.backend = backend]
        ELSE LET out == serialize_tool_output(backend.value, name)
             IN  IF out.outcome = "raise"
                 THEN [Raise("call_tool", request, out.error.type, "", "",
                             out.error.msg, 1)
                          EXCEPT !.backend = backend]
                 ELSE [Return("call_tool", request, 1, <<>>, out.text)
                          EXCEPT !.backend = backend]

\* Variant that tests the enabled list before the registry.
CallToolImpl_EnabledFirst(current, enabled, definitions, registry, request, backend) ==
    LET name == request.name
    IN  IF name = IntrospectionName
        THEN CallIntrospection(current, definitions, request)
        ELSE IF ~HasLen(enabled)
        THEN Raise("call_tool", request, "TypeError", "is not iterable", "", "", 0)
        ELSE IF ~Contains(enabled, name)
        THEN Raise("call_tool", request, "ValueError",
                   "is not enabled in the current package", name, current, 0)
        ELSE IF ~InRegistry(registry, name)
        THEN Raise("call_tool", request, "ValueError", "Unknown tool", name, "", 0)
        ELSE ExecuteTool(request, backend)

\* Variant without the test of the enabled list.
CallToolImpl_NoEnabledTest(current, enabled, definitions, registry, request, backend) ==
    LET name == request.name
    IN  IF name = IntrospectionName
        THEN CallIntrospection(current, definitions, request)
        ELSE IF ~InRegistry(registry, name)
        THEN Raise("call_tool", request, "ValueError", "Unknown tool", name, "", 0)
        ELSE ExecuteTool(request, backend)

CallToolImpl(current, enabled, definitions, registry, request, backend) ==
    LET name == request.name
    IN  IF name = IntrospectionName
        THEN CallIntrospection(current, definitions, request)
        ELSE IF ~InRegistry(registry, name)
        THEN Raise("call_tool", request, "ValueError", "Unknown tool", name, "", 0)
        ELSE IF ~HasLen(enabled)
        THEN Raise("call_tool", request, "TypeError", "is not iterable", "", "", 0)
        ELSE IF ~Contains(enabled, name)
        THEN Raise("call_tool", request, "ValueError",
                   "is not enabled in the current package", name, current, 0)
        ELSE ExecuteTool(request, backend)

\* ---------------------------------------------------------------- the state
VARIABLES
    phase,                  \* "Uninitialized", "Ready" or "Failed"
    MCP_TOOL_PACKAGE,       \* the environment variable
    config_file,            \* the file at TOOL_PACKAGE_CONFIG_PATH
    package_definitions,    \* self.package_definitions
    enabled_tool_names,     \* self.enabled_tool_names
    current_package_name,   \* self.current_package_name
    tool_definitions,       \* self.tool_definitions
    response                \* what the last handler call gave back

vars == <<phase, MCP_TOOL_PACKAGE, config_file, package_definitions,
          enabled_tool_names, current_package_name, tool_definitions, response>>

\* The fields as __init__ sets them before it loads anything.
Init ==
    /\ phase = "Uninitialized"
    /\ MCP_TOOL_PACKAGE \in EnvValues
    /\ config_file \in ConfigFiles
    /\ package_definitions = EmptyMapping
    /\ enabled_tool_names = ListValue(<<>>)
    /\ current_package_name = "none"
    /\ tool_definitions = <<>>
    /\ response = NoResponse

\* ServiceNowMCP.__init__: load the configuration, resolve the package, build
\* the registry and register the handlers.  An exception out of
\* _load_package_config or _determine_enabled_tools leaves __init__ with the
\* assignments made so far and before the registry is built.
Construct ==
    /\ phase = "Uninitialized"
    /\ LET loaded == LoadPackageConfig(config_file)
           resolved == DetermineEnabledTools(MCP_TOOL_PACKAGE, loaded.definitions)
       IN  IF loaded.raised # "none"
           THEN /\ phase' = "Failed"
                /\ UNCHANGED <<package_definitions, current_package_name,
                               enabled_tool_names, tool_definitions>>
           ELSE /\ package_definitions' = loaded.definitions
                /\ current_package_name' = resolved.current_package_name
                /\ enabled_tool_names' = resolved.enabled_tool_names
                /\ IF resolved.raised = "none"
                   THEN /\ tool_definitions' = get_tool_definitions
                        /\ phase' = "Ready"
                   ELSE /\ tool_definitions' = tool_definitions
                        /\ phase' = "Failed"
    /\ UNCHANGED <<MCP_TOOL_PACKAGE, config_file, response>>

\* The list_tools handler, for any set of operations whose schema generation
\* fails.
ListTools ==
    /\ phase = "Ready"
    /\ \E schema_fails \in SUBSET RegistryNames :
          response' = ListToolsImpl(current_package_name, enabled_tool_names,
                                    tool_definitions, schema_fails)
    /\ UNCHANGED <<phase, MCP_TOOL_PACKAGE, config_file, package_definitions,
                   enabled_tool_names, current_package_name, tool_definitions>>

\* Variant in which a call that raises stops the server.
CallTool_FailureStopsServer ==
    /\ phase = "Ready"
    /\ \E name \in CallNames, arguments \in Arguments,
          backend \in BackendBehaviours :
          response' = CallToolImpl(current_package_name, enabled_tool_names,
                                   package_definitions, tool_definitions,
                                   Request(name, arguments), backend)
    /\ phase' = IF response'.outcome = "raise" THEN "Failed" ELSE phase
    /\ UNCHANGED <<MCP_TOOL_PACKAGE, config_file, package_definitions,
                   enabled_tool_names, current_package_name, tool_definitions>>

\* The call_tool handler, for any name, arguments and backend behaviour.
CallTool ==
    /\ phase = "Ready"
    /\ \E name \in CallNames, arguments \in Arguments,
          backend \in BackendBehaviours :
          response' = CallToolImpl(current_package_name, enabled_tool_names,
                                   package_definitions, tool_definitions,
                                   Request(name, arguments), backend)
    /\ UNCHANGED <<phase, MCP_TOOL_PACKAGE, config_file, package_definitions,
                   enabled_tool_names, current_package_name, tool_definitions>>

Next == Construct \/ ListTools \/ CallTool

Spec == Init /\ [][Next]_vars

\* ------------------------------------------------ enumeration scenarios
\* The same server, started on a file that defines the package 'full', alone
\* or next to a package whose key is a date, with any list of registry names
\* and unknown names (order, duplicates) in it.
EnumLists == SeqUpTo(RegistryNames \cup {UnknownTool}, MaxEnumListLen)
EnumKeys == {{"full"}, {"full", DateKey}}

InitEnum ==
    /\ phase = "Uninitialized"
    /\ MCP_TOOL_PACKAGE \in {Unset, SetTo(<<"full">>), SetTo(<<"none">>)}
    /\ config_file \in {[outcome |-> "dict",
                          content |-> [k \in K |-> ListValue(l)]] :
                            K \in EnumKeys, l \in EnumLists}
    /\ package_definitions = EmptyMapping
    /\ enabled_tool_names = ListValue(<<>>)
    /\ current_package_name = "none"
    /\ tool_definitions = <<>>
    /\ response = NoResponse

SpecEnum == InitEnum /\ [][Next]_vars

\* ------------------------------------------- the normalizer on its own
\* serialize_tool_output is a module-level function: it is applied here to
\* every raw result of the universe, before any server object exists, and
\* then to the string it returned.
DistinctKeys(m) == \A i, j \in DOMAIN m : m[i][1] = m[j][1] => i = j

DictMappings ==
    {m \in SeqUpTo(PyKeys \X PyValues, MaxPairs) : DistinctKeys(m)}

JsonTexts ==
    {JsonObject(f, p) : f \in {"json", "json_compact"},
                        p \in SeqUpTo({"1", "a"} \X {"x", "y"}, MaxPairs)}

\* What model_dump() / dict() of a typed record return.
ObjectMappings ==
    {<< <<PyKey("str", "a"), "x">> >>, << <<PyKey("str", "a"), PySet>> >>}

\* Exceptions a conversion method can raise; str(ValueError()) is ''.
Raisable == {Exc("ValueError", ""), Exc("RuntimeError", "boom")}

NormalizerInputs ==
    {StrResult(t) : t \in JsonTexts \cup {Verbatim("not json")}}
        \cup {DictResult(m) : m \in DictMappings}
        \cup {Raw("object", Verbatim("<object>"), m, methods, dj, cv, e) :
                 m \in ObjectMappings,
                 methods \in SUBSET {"model_dump_json", "model_dump", "dict"},
                 dj \in {"ok", "TypeError", "raises"},
                 cv \in {"ok", "raises"},
                 e \in Raisable}

NoOutcome == [outcome |-> "none", text |-> NoText, error |-> NoException]

NoSession ==
    /\ phase = "Uninitialized"
    /\ MCP_TOOL_PACKAGE = Unset
    /\ config_file = [outcome |-> "FileNotFoundError", content |-> EmptyMapping]
    /\ package_definitions = EmptyMapping
    /\ enabled_tool_names = ListValue(<<>>)
    /\ current_package_name = "none"
    /\ tool_definitions = <<>>

InitNormalizer ==
    /\ NoSession
    /\ \E raw \in NormalizerInputs, tool_name \in RegistryNames :
          response = [op |-> "raw_result", raw |-> raw, tool |-> tool_name,
                      out |-> NoOutcome, again |-> NoOutcome]

\* serialize_tool_output(raw_result, tool_name)
Serialize ==
    /\ response.op = "raw_result"
    /\ response' = [response EXCEPT
                       !.op = "serialized",
                       !.out = serialize_tool_output(response.raw, response.tool)]
    /\ UNCHANGED <<phase, MCP_TOOL_PACKAGE, config_file, package_definitions,
                   enabled_tool_names, current_package_name, tool_definitions>>

\* serialize_tool_output applied to the string the first call returned.
Reserialize ==
    /\ response.op = "serialized"
    /\ response.out.outcome = "return"
    /\ response' = [response EXCEPT
                       !.op = "reserialized",
                       !.again = serialize_tool_output(
                                     StrResult(response.out.text), response.tool)]
    /\ UNCHANGED <<phase, MCP_TOOL_PACKAGE, config_file, package_definitions,
                   enabled_tool_names, current_package_name, tool_definitions>>

NextNormalizer == Serialize \/ Reserialize

SpecNormalizer == InitNormalizer /\ [][NextNormalizer]_vars

Serialized == response.op \in {"serialized", "reserialized"}

\* A strategy of the body raised for the raw result.
StrategyRaised == SerializeBody(response.raw).raised.type # "none"

\* --------------------------------------------------- case_tools.list_cases
\* Python's None.
None == "<None>"

\* The assigned_to member of a backend record: a plain string, a reference
\* mapping with a display_value, or null.
Plain(v) == [kind |-> "str", display_value |-> v]
Reference(v) == [kind |-> "dict", display_value |-> v]
Null == [kind |-> "null", display_value |-> None]

\* The records of the sn_customerservice_case table.
CaseRecords ==
    {[sys_id |-> id, number |-> id, short_description |-> "printer",
      description |-> "printer is down", state |-> st, priority |-> "2",
      assigned_to |-> at, sys_created_on |-> "2024-01-01",
      sys_updated_on |-> "2024-01-02"] :
         id \in {"CASE001", "CASE002"},
         st \in {"Open", "Closed"},
         at \in {Plain("Agent"), Reference("Agent"), Null}}

\* What requests.get(...) and raise_for_status() do: a 2xx reply whose JSON
\* body has a 'result' list, a transport failure (subclasses of
\* requests.RequestException), or an exception of another type raised inside
\* the try (for instance by auth_manager.get_headers()).
TransportFailures == {"Timeout", "ConnectionError", "HTTPError"}
OtherFailures == {"ValueError"}
BackendReplies ==
    {[kind |-> "ok", result |-> r] : r \in SeqUpTo(CaseRecords, MaxCases)}
        \cup {[kind |-> f, result |-> <<>>] :
                  f \in TransportFailures \cup OtherFailures}

\* Variant that reads the 'value' key of a reference mapping, which the
\* backend does not send.
AssignedTo_ReadsValueKey(value) ==
    IF value.kind = "dict" THEN None
    ELSE IF value.kind = "str" THEN value.display_value
    ELSE None

\* The assigned_to of a returned case (lines 202-204).
AssignedTo(value) ==
    IF value.kind = "dict" THEN value.display_value
    ELSE IF value.kind = "str" THEN value.display_value
    ELSE None

\* One entry of 'cases' (lines 205-215).
CaseEntry(case_data) ==
    [sys_id |-> case_data.sys_id, number |-> case_data.number,
     short_description |-> case_data.short_description,
     description |-> case_data.description, state |-> case_data.state,
     priority |-> case_data.priority,
     assigned_to |-> AssignedTo(case_data.assigned_to),
     created_on |-> case_data.sys_created_on,
     updated_on |-> case_data.sys_updated_on]

\* What list_cases gives back: the dict it returns, or the exception that
\* leaves it.  message is the f-string's template and the value put in it.
CasesReturn(success, template, value, cases) ==
    [raised |-> "none", success |-> success,
     message |-> [template |-> template, value |-> value], cases |-> cases]
CasesRaise(type) ==
    [raised |-> type, success |-> FALSE,
     message |-> [template |-> "", value |-> ""], cases |-> <<>>]

list_cases(reply) ==
    CASE reply.kind = "ok" ->
            LET cases == [i \in DOMAIN reply.result |-> CaseEntry(reply.result[i])]
            IN  CasesReturn(TRUE, "Found {} cases", ToString(Len(cases)), cases)
      [] reply.kind \in TransportFailures ->
            CasesReturn(FALSE, "Failed to list cases: {}", reply.kind, <<>>)
      [] OTHER -> CasesRaise(reply.kind)

\* The dict list_cases returned, as a raw result of the serializer: the
\* values are written as the text json.dumps gives them.
CasesDict(returned) ==
    DictResult(<< <<PyKey("str", "success"),
                    IF returned.success THEN "true" ELSE "false">>,
                  <<PyKey("str", "message"), ToString(returned.message)>>,
                  <<PyKey("str", "cases"), ToString(returned.cases)>> >>)

\* impl_func = list_cases, as _call_tool_impl sees it at line 277.
ListCasesBehaviour(reply) ==
    LET returned == list_cases(reply)
    IN  IF returned.raised # "none"
        THEN [kind |-> "raises", value |-> PlainText, str |-> returned.raised]
        ELSE [kind |-> "returns", value |-> CasesDict(returned), str |-> ""]

ListCasesName == "list_cases"
NoCases == CasesRaise("not_called")

\* list_cases against every backend reply, called directly and as the
\* implementation function of _call_tool_impl's execution step.
InitCases ==
    /\ NoSession
    /\ \E reply \in BackendReplies :
          response = [op |-> "backend_reply", reply |-> reply,
                      result |-> NoCases, invoke |-> NoResponse]

\* list_cases(config, auth_manager, ListCasesParams())
ListCases ==
    /\ response.op = "backend_reply"
    /\ response' = [response EXCEPT !.op = "list_cases",
                                    !.result = list_cases(response.reply)]
    /\ UNCHANGED <<phase, MCP_TOOL_PACKAGE, config_file, package_definitions,
                   enabled_tool_names, current_package_name, tool_definitions>>

\* Lines 258-288 of _call_tool_impl with list_cases as impl_func.
InvokeListCases ==
    /\ response.op = "backend_reply"
    /\ \E arguments \in Arguments :
          response' = [response EXCEPT
                          !.op = "invoke",
                          !.invoke = ExecuteTool(
                                        Request(ListCasesName, arguments),
                                        ListCasesBehaviour(response.reply))]
    /\ UNCHANGED <<phase, MCP_TOOL_PACKAGE, config_file, package_definitions,
                   enabled_tool_names, current_package_name, tool_definitions>>

NextCases == ListCases \/ InvokeListCases

SpecCases == InitCases /\ [][NextCases]_vars

\* ------------------------------- case_tools: create, update, get
\* A case_id argument: how many characters it has and whether all of them
\* are in "0123456789abcdef".
SysIdLength == 32
CaseId(length, hex) == [length |-> length, hex |-> hex]
CaseIds == {CaseId(n, h) : n \in {7, SysIdLength}, h \in BOOLEAN}

\* len(case_id) == 32 and all(c in "0123456789abcdef" for c in case_id)
IsSysId(case_id) == case_id.length = SysIdLength /\ case_id.hex

\* The 'result' member of the backend's JSON body for one record.
StoredCases ==
    {[sys_id |-> s, number |-> n] : s \in {"abc", "def"},
                                    n \in {"CASE001", "CASE002"}}

\* What one request does: a 2xx reply with a record, a 2xx reply with an
\* empty 'result', a transport failure, or an exception of another type
\* raised before the request is sent.
NoRecord == [sys_id |-> None, number |-> None]
CaseReplies ==
    {[kind |-> "ok", record |-> r] : r \in StoredCases}
        \cup {[kind |-> "empty", record |-> NoRecord]}
        \cup {[kind |-> f, record |-> NoRecord] :
                  f \in TransportFailures \cup OtherFailures}

\* Whether requests.get/post/put was reached: get_headers() is evaluated
\* before the call.
Sent(reply, method) == IF reply.kind \in OtherFailures THEN <<>> ELSE <<method>>

\* What a case operation gives back: the CaseResponse or dict it returns or
\* the exception that leaves it, and the requests it issued, in order.
\* message is the text or f-string template and the value put in it.
CaseResult(success, message, cause, record, requests) ==
    [raised |-> "none", success |-> success,
     message |-> [template |-> message, value |-> cause],
     case_id |-> record.sys_id, case_number |-> record.number,
     requests |-> requests]
CaseRaised(type, requests) ==
    [raised |-> type, success |-> FALSE,
     message |-> [template |-> "", value |-> ""],
     case_id |-> None, case_number |-> None, requests |-> requests]

\* Variant of create_case that does not read the 'result' of the reply.
create_case_IgnoresResult(reply) ==
    CASE reply.kind \in {"ok", "empty"} ->
            CaseResult(TRUE, "Case created successfully", "", NoRecord,
                       <<"POST">>)
      [] reply.kind \in TransportFailures ->
            CaseResult(FALSE, "Failed to create case: {}", reply.kind,
                       NoRecord, <<"POST">>)
      [] OTHER -> CaseRaised(reply.kind, Sent(reply, "POST"))

\* create_case (lines 88-105).
create_case(reply) ==
    CASE reply.kind \in {"ok", "empty"} ->
            CaseResult(TRUE, "Case created successfully", "", reply.record,
                       <<"POST">>)
      [] reply.kind \in TransportFailures ->
            CaseResult(FALSE, "Failed to create case: {}", reply.kind,
                       NoRecord, <<"POST">>)
      [] OTHER -> CaseRaised(reply.kind, Sent(reply, "POST"))

\* The lookup of a case by number (update_case 114-134, get_case 232-256):
\* the sys_id found, or the result that ends the operation.
FindCase(lookup) ==
    CASE lookup.kind = "ok" ->
            [found |-> TRUE, requests |-> <<"GET">>,
             result |-> CaseRaised("not_ended", <<>>)]
      [] lookup.kind = "empty" ->
            [found |-> FALSE, requests |-> <<"GET">>,
             result |-> CaseResult(FALSE, "Case not found: {}", "", NoRecord,
                                   <<"GET">>)]
      [] lookup.kind \in TransportFailures ->
            [found |-> FALSE, requests |-> <<"GET">>,
             result |-> CaseResult(FALSE, "Failed to find case: {}",
                                   lookup.kind, NoRecord, <<"GET">>)]
      [] OTHER ->
            [found |-> FALSE, requests |-> <<>>,
             result |-> CaseRaised(lookup.kind, Sent(lookup, "GET"))]

\* The PUT of update_case (lines 154-171), after the requests issued so far.
PutCase(reply, before) ==
    CASE reply.kind \in {"ok", "empty"} ->
            CaseResult(TRUE, "Case updated successfully", "", reply.record,
                       before \o <<"PUT">>)
      [] reply.kind \in TransportFailures ->
            CaseResult(FALSE, "Failed to update case: {}", reply.kind,
                       NoRecord, before \o <<"PUT">>)
      [] OTHER -> CaseRaised(reply.kind, before \o Sent(reply, "PUT"))

\* Variant of update_case that goes on to the PUT after a lookup that failed
\* or found nothing.
update_case_PutAfterFailedLookup(case_id, lookup, reply) ==
    IF IsSysId(case_id) THEN PutCase(reply, <<>>)
    ELSE PutCase(reply, FindCase(lookup).requests)

update_case(case_id, lookup, reply) ==
    IF IsSysId(case_id) THEN PutCase(reply, <<>>)
    ELSE LET find == FindCase(lookup)
         IN  IF find.found THEN PutCase(reply, find.requests)
             ELSE find.result

\* The GET of get_case (lines 258-285), after the requests issued so far.
FetchCase(reply, before) ==
    CASE reply.kind = "ok" ->
            CaseResult(TRUE, "", "", reply.record, before \o <<"GET">>)
      [] reply.kind = "empty" ->
            CaseResult(FALSE, "Case not found: {}", "", NoRecord,
                       before \o <<"GET">>)
      [] reply.kind \in TransportFailures ->
            CaseResult(FALSE, "Failed to get case: {}", reply.kind, NoRecord,
                       before \o <<"GET">>)
      [] OTHER -> CaseRaised(reply.kind, before \o Sent(reply, "GET"))

get_case(case_id, lookup, reply) ==
    IF IsSysId(case_id) THEN FetchCase(reply, <<>>)
    ELSE LET find == FindCase(lookup)
         IN  IF find.found THEN FetchCase(reply, find.requests)
             ELSE find.result

\* A returned CaseResponse as a raw result of the serializer: a pydantic v2
\* model, whose model_dump_json(indent=2) works.  JSON writes True as true
\* and None as null.
JsonAtom(value) == IF value = None THEN "null" ELSE value
CaseResponseRaw(returned) ==
    Raw("object", Verbatim("CaseResponse(...)"),
        << <<PyKey("str", "success"),
             IF returned.success THEN "true" ELSE "false">>,
           <<PyKey("str", "message"), ToString(returned.message)>>,
           <<PyKey("str", "case_id"), JsonAtom(returned.case_id)>>,
           <<PyKey("str", "case_number"), JsonAtom(returned.case_number)>> >>,
        {"model_dump_json", "model_dump", "dict"}, "ok", "ok", NoException)

\* The dict get_case returns, as a raw result of the serializer.
GetCaseDict(returned) ==
    DictResult(<< <<PyKey("str", "success"),
                    IF returned.success THEN "true" ELSE "false">> >>
               \o (IF returned.success
                   THEN << <<PyKey("str", "case"),
                             ToString([sys_id |-> returned.case_id,
                                       number |-> returned.case_number])>> >>
                   ELSE << <<PyKey("str", "message"), ToString(returned.message)>> >>))

CaseToolNames == {"create_case", "update_case", "list_cases", "get_case"}

\* The raw result a case operation hands to serialize_tool_output.
CaseRaw(tool, returned) ==
    CASE tool \in {"create_case", "update_case"} -> CaseResponseRaw(returned)
      [] tool = "get_case" -> GetCaseDict(returned)
      [] tool = "list_cases" -> CasesDict(returned)

\* Every case operation against every case_id and every behaviour of its
\* lookup request and of its main request.
AnyCaseId == CaseId(7, FALSE)
AnyReply == [kind |-> "empty", record |-> NoRecord]
CaseCall(tool, case_id, lookup, reply) ==
    [op |-> "inputs", tool |-> tool, case_id |-> case_id, lookup |-> lookup,
     reply |-> reply, result |-> CaseRaised("not_called", <<>>),
     text |-> NoOutcome]

InitCaseOps ==
    /\ NoSession
    /\ \/ \E reply \in CaseReplies :
             response = CaseCall("create_case", AnyCaseId, AnyReply, reply)
       \/ \E tool \in {"update_case", "get_case"}, case_id \in CaseIds,
             lookup \in CaseReplies, reply \in CaseReplies :
             response = CaseCall(tool, case_id, lookup, reply)
       \/ \E reply \in BackendReplies :
             response = CaseCall("list_cases", AnyCaseId, AnyReply, reply)

\* create_case(config, auth_manager, params)
CallCreateCase ==
    /\ response.op = "inputs"
    /\ response.tool = "create_case"
    /\ response' = [response EXCEPT
                       !.op = "called",
                       !.result = create_case(response.reply)]
    /\ UNCHANGED <<phase, MCP_TOOL_PACKAGE, config_file, package_definitions,
                   enabled_tool_names, current_package_name, tool_definitions>>

\* update_case(config, auth_manager, params)
CallUpdateCase ==
    /\ response.op = "inputs"
    /\ response.tool = "update_case"
    /\ response' = [response EXCEPT
                       !.op = "called",
                       !.result = update_case(response.case_id,
                                     response.lookup, response.reply)]
    /\ UNCHANGED <<phase, MCP_TOOL_PACKAGE, config_file, package_definitions,
                   enabled_tool_names, current_package_name, tool_definitions>>

\* get_case(config, auth_manager, params)
CallGetCase ==
    /\ response.op = "inputs"
    /\ response.tool = "get_case"
    /\ response' = [response EXCEPT
                       !.op = "called",
                       !.result = get_case(response.case_id,
                                     response.lookup, response.reply)]
    /\ UNCHANGED <<phase, MCP_TOOL_PACKAGE, config_file, package_definitions,
                   enabled_tool_names, current_package_name, tool_definitions>>

\* list_cases(config, auth_manager, params), with the requests it issued.
CallListCases ==
    /\ response.op = "inputs"
    /\ response.tool = "list_cases"
    /\ response' = [response EXCEPT
                       !.op = "called",
                       !.result = list_cases(response.reply)
                           @@ [requests |-> Sent(response.reply, "GET")]]
    /\ UNCHANGED <<phase, MCP_TOOL_PACKAGE, config_file, package_definitions,
                   enabled_tool_names, current_package_name, tool_definitions>>

\* serialize_tool_output on what the operation returned (server.py:284).
NormalizeCaseResult ==
    /\ response.op = "called"
    /\ response.result.raised = "none"
    /\ response' = [response EXCEPT
                       !.op = "normalized",
                       !.text = serialize_tool_output(
                                   CaseRaw(response.tool, response.result),
                                   response.tool)]
    /\ UNCHANGED <<phase, MCP_TOOL_PACKAGE, config_file, package_definitions,
                   enabled_tool_names, current_package_name, tool_definitions>>

NextCaseOps ==
    \/ CallCreateCase
    \/ CallUpdateCase
    \/ CallGetCase
    \/ CallListCases
    \/ NormalizeCaseResult

SpecCaseOps == InitCaseOps /\ [][NextCaseOps]_vars

\* The operation ran.
CaseCalled == response.op \in {"called", "normalized"}

\* The case is named by its number: the operation looks it up first.
ByNumber ==
    response.tool \in {"update_case", "get_case"} /\ ~IsSysId(response.case_id)

\* A member of a JSON object text.
MemberIs(pairs, key, value) ==
    \E i \in DOMAIN pairs : pairs[i][1] = key /\ pairs[i][2] = value

\* ------------------------------------------- case operations, dispatched
\* The server started on a file whose package 'full' lists case operations,
\* and calls of the case operations' names.
CasePackageLists ==
    SeqUpTo(CaseToolNames \cup {get_tool_definitions[1]}, MaxEnumListLen)

InitCaseDispatch ==
    /\ phase = "Uninitialized"
    /\ MCP_TOOL_PACKAGE \in {Unset, SetTo(<<"full">>)}
    /\ config_file \in {[outcome |-> "dict",
                          content |-> [k \in {"full"} |-> ListValue(l)]] :
                            l \in CasePackageLists}
    /\ package_definitions = EmptyMapping
    /\ enabled_tool_names = ListValue(<<>>)
    /\ current_package_name = "none"
    /\ tool_definitions = <<>>
    /\ response = NoResponse

\* The call_tool handler, called with the name of a case operation.
CallCaseTool ==
    /\ phase = "Ready"
    /\ \E name \in CaseToolNames, arguments \in Arguments,
          backend \in BackendBehaviours :
          response' = CallToolImpl(current_package_name, enabled_tool_names,
                                   package_definitions, tool_definitions,
                                   Request(name, arguments), backend)
    /\ UNCHANGED <<phase, MCP_TOOL_PACKAGE, config_file, package_definitions,
                   enabled_tool_names, current_package_name, tool_definitions>>

NextCaseDispatch == Construct \/ ListTools \/ CallCaseTool

SpecCaseDispatch == InitCaseDispatch /\ [][NextCaseDispatch]_vars

\* ---------------------------------------------------------- error kinds (7)
OperationNotFound(r) ==
    r.outcome = "raise" /\ r.error = "ValueError" /\ r.message = "Unknown tool"

CapabilityDisabled(r) ==
    /\ r.outcome = "raise"
    /\ r.error = "ValueError"
    /\ r.message \in {"is not enabled in the current package",
                      "is not available in the 'none' package"}

InvalidArguments(r) ==
    /\ r.outcome = "raise"
    /\ r.error = "ValueError"
    /\ r.message \in {"Invalid arguments for tool",
                      "Failed to parse arguments for tool"}

ExecutionFailed(r) ==
    /\ r.outcome = "raise"
    /\ r.error = "RuntimeError"
    /\ r.message = "Error during execution of tool"

Called == response.op = "call_tool"
Listed == response.op = "list_tools"
Constructed == phase # "Uninitialized"
Requested == RequestedPackage(MCP_TOOL_PACKAGE)
FileDefinitions == LoadPackageConfig(config_file).definitions
EmptyList == ListValue(<<>>)

\* The call passed the registry test and the enabled test.
CalledEnabledTool ==
    /\ Called
    /\ InRegistry(tool_definitions, response.request.name)
    /\ Contains(enabled_tool_names, response.request.name)

\* ------------------------------------------------------------------- C1
\* C1 as stated: a call of any name that is not in the registry, the reserved
\* name list_tool_packages included, fails with the 'Unknown tool' error.
C1_AnyNameOutsideRegistryNotFound ==
    (Called /\ ~InRegistry(tool_definitions, response.request.name))
        => OperationNotFound(response)

\* C1 amended: a call of any name that is not in the registry and is not the
\* reserved name list_tool_packages fails with the 'Unknown tool' error naming
\* it, whatever the active package and the arguments, and executes nothing.
C1_UnknownToolNotFound ==
    (/\ Called
     /\ response.request.name # IntrospectionName
     /\ ~InRegistry(tool_definitions, response.request.name))
        => (/\ OperationNotFound(response)
            /\ response.tool = response.request.name
            /\ response.executed = 0)

\* An unknown name was called while its name is on the active package's list.
C1_Witness ==
    /\ Called
    /\ response.request.name = UnknownTool
    /\ Contains(enabled_tool_names, UnknownTool)
    /\ OperationNotFound(response)

\* ------------------------------------------------------------------- C2
\* C2: a call of a registry operation that is not in the enabled list of the
\* session fails with the 'not enabled in the current package' error, for
\* every arguments value, and executes nothing.
C2_DisabledToolRejected ==
    (/\ Called
     /\ InRegistry(tool_definitions, response.request.name)
     /\ ~Contains(enabled_tool_names, response.request.name))
        => (/\ CapabilityDisabled(response)
            /\ response.message = "is not enabled in the current package"
            /\ response.tool = response.request.name
            /\ response.executed = 0)

\* The scenario of the claim: read_only requested with an empty list, and
\* create_incident called with valid arguments.
C2_Witness ==
    /\ Called
    /\ current_package_name = "read_only"
    /\ enabled_tool_names = EmptyList
    /\ response.request.name = "create_incident"
    /\ response.request.arguments = "valid"
    /\ CapabilityDisabled(response)

\* ------------------------------------------------------------------- C3
\* C3: in Ready, list_tools returns; its list has no list_tool_packages entry
\* when the active package is 'none', and otherwise has it exactly once, as
\* the first entry.
C3_IntrospectionListedFirstUnlessNone ==
    Listed =>
        /\ response.outcome = "return"
        /\ LET at == {i \in DOMAIN response.tools :
                         response.tools[i] = IntrospectionName}
           IN  IF current_package_name = "none" THEN at = {} ELSE at = {1}

\* list_tools answered under a package other than 'none' and returned a
\* registry operation after the introspection entry.
C3_Witness ==
    /\ Listed
    /\ current_package_name # "none"
    /\ Len(response.tools) = 2
    /\ response.tools[1] = IntrospectionName

\* ------------------------------------------------------------------- C4
\* C4: whenever resolution of a non-empty identifier that is not a key of the
\* definitions has completed, the active package is 'none' and the enabled
\* list is empty, also when the definitions have a key 'none'.  (That
\* resolution completes for every mapping is C7.)
C4_UnrecognizedResolvesToNoneAndEmpty ==
    (/\ phase = "Ready"
     /\ Requested # <<>>
     /\ ~(Len(Requested) = 1 /\ Requested[1] \in DOMAIN FileDefinitions))
        => (/\ current_package_name = "none"
            /\ enabled_tool_names = EmptyList)

\* ------------------------------------------------------------------- C5
\* C5: in every Ready state, an active package 'none' has an empty enabled
\* list, and list_tools then returns the empty list.
C5_NoneHasNoEnabledTools ==
    (phase = "Ready" /\ current_package_name = "none")
        => (/\ enabled_tool_names = EmptyList
            /\ (Listed => response.tools = <<>>))

\* ------------------------------------------------------------------- C6
\* C6: whenever resolution has completed, an empty, whitespace-only or unset
\* identifier has given the active package and the enabled list that the
\* identifier 'full' gives on the same definitions.
C6_EmptyResolvesAsFull ==
    (/\ phase = "Ready"
     /\ (~MCP_TOOL_PACKAGE.set \/ Strip(MCP_TOOL_PACKAGE.value) = <<>>))
        => LET full == DetermineEnabledTools(SetTo(<<"full">>), FileDefinitions)
           IN  /\ current_package_name = full.current_package_name
               /\ enabled_tool_names = full.enabled_tool_names

\* ------------------------------------------------------------------- C7
\* C7: package resolution raises for no identifier and no mapping the loader
\* accepts, so construction always reaches Ready.
C7_ResolutionNeverRaises == Constructed => phase = "Ready"

\* ------------------------------------------------------------------- C8
\* C8: when loading the definitions fails, the definitions are the empty
\* mapping, construction reaches Ready, an active package name is recorded
\* ('full' or 'none') and the enabled list is empty, for every identifier.
C8_LoadFailureGivesEmptyDefinitions ==
    (Constructed /\ config_file.outcome # "dict")
        => (/\ phase = "Ready"
            /\ package_definitions = EmptyMapping
            /\ current_package_name \in {"full", "none"}
            /\ enabled_tool_names = EmptyList)

\* The file was missing, 'read_only' was requested and the server is Ready.
C8_Witness ==
    /\ phase = "Ready"
    /\ config_file.outcome = "FileNotFoundError"
    /\ Requested = <<"read_only">>
    /\ current_package_name = "none"

\* ------------------------------------------------------------------- C9
\* C9: when the parameter model raises for the arguments of an enabled
\* registry operation (a ValidationError or any other exception), the call
\* fails with the invalid-arguments ValueError that carries the operation
\* name and the exception's text, and impl_func is not called.
C9_BadArgumentsRejected ==
    (/\ CalledEnabledTool
     /\ ParamsModel(response.request.name, response.request.arguments).raised
            # "none")
        => (/\ InvalidArguments(response)
            /\ response.tool = response.request.name
            /\ response.detail =
                 ParamsModel(response.request.name, response.request.arguments).str
            /\ response.detail # ""
            /\ response.executed = 0)

\* An enabled operation was called with arguments that break the parsing with
\* an exception other than ValidationError.
C9_Witness ==
    /\ CalledEnabledTool
    /\ response.request.arguments = "breaks_parsing"
    /\ response.message = "Failed to parse arguments for tool"

\* ------------------------------------------------------------------ C10
\* C10: when impl_func raises for an enabled registry operation with valid
\* arguments, the call fails with the execution RuntimeError that carries the
\* operation name and the cause; a call that reached the execution step
\* either returns or fails with that error.
C10_ExecutionErrorsWrapped ==
    (/\ CalledEnabledTool
     /\ ParamsModel(response.request.name, response.request.arguments).raised
            = "none")
        => IF response.backend.kind = "raises"
           THEN /\ ExecutionFailed(response)
                /\ response.tool = response.request.name
                /\ response.detail = response.backend.str
                /\ response.executed = 1
           ELSE response.outcome = "return"

\* The implementation of an enabled operation raised.
C10_Witness ==
    /\ CalledEnabledTool
    /\ response.request.arguments = "valid"
    /\ response.backend.kind = "raises"
    /\ response.outcome = "raise"
\* ------------------------------------------------------------------ C11
\* C11: for every raw result (string, dict, typed record, anything else) and
\* every operation name, serialize_tool_output returns a string and no
\* exception leaves it, also when a conversion or json.dumps raises.
C11_NormalizerTotal ==
    Serialized =>
        /\ response.out.outcome = "return"
        /\ response.out.error = NoException
        /\ response.out.text.form \in {"json", "verbatim", "error_envelope"}

\* A conversion raised, and a string came back.
C11_Witness ==
    /\ response.op = "serialized"
    /\ StrategyRaised
    /\ response.raw.type = "object"
    /\ response.out.outcome = "return"

\* ------------------------------------------------------------------ C12
\* C12 as stated: whenever a strategy raises, the returned string is the
\* error envelope, its 'error' field holds the operation name and its
\* 'details' field is non-empty, for every exception, one with an empty
\* message included.
C12_EnvelopeHasNonEmptyDetails ==
    (Serialized /\ StrategyRaised) =>
        /\ response.out.text.form = "error_envelope"
        /\ response.out.text.tool = response.tool
        /\ response.out.text.details # ""

\* ------------------------------------------------------------------ C13
\* C13 as stated: for every JSON-renderable dict m, normalizing m and then
\* normalizing the text it gave yields the same text and the same content.
C13_RoundTripAnyMapping ==
    (response.op = "reserialized" /\ response.raw.type = "dict"
        /\ response.out.text.form = "json") =>
        /\ response.again.outcome = "return"
        /\ response.again.text = response.out.text
        /\ JsonLoads(response.again.text.pairs)
              = JsonLoads(response.out.text.pairs)

\* The keys of the dict become pairwise distinct JSON key texts.
DistinctKeyTexts(m) ==
    \A i, j \in DOMAIN m : KeyText(m[i][1]) = KeyText(m[j][1]) => i = j

\* C13, amended: for every JSON-renderable dict m whose keys are rendered as
\* pairwise distinct JSON keys (no int key next to the str of its decimal
\* text), normalizing m and then normalizing the text it gave yields the same
\* text and the same content.
C13_RoundTripDistinctKeyTexts ==
    (response.op = "reserialized" /\ response.raw.type = "dict"
        /\ response.out.text.form = "json"
        /\ DistinctKeyTexts(response.raw.mapping)) =>
        /\ response.again.outcome = "return"
        /\ response.again.text = response.out.text
        /\ JsonLoads(response.again.text.pairs)
              = JsonLoads(response.out.text.pairs)

\* A dict of two members with an int key went through both calls.
C13_Witness ==
    /\ response.op = "reserialized"
    /\ response.raw.type = "dict"
    /\ Len(response.raw.mapping) = 2
    /\ \E i \in DOMAIN response.raw.mapping :
          response.raw.mapping[i][1].t = "int"
    /\ DistinctKeyTexts(response.raw.mapping)
    /\ response.out.text.form = "json"
    /\ response.again.text = response.out.text

\* ------------------------------------------------------------------ C14
\* The names of a sequence.
Names(seq) == {seq[i] : i \in DOMAIN seq}

\* C14: in any Ready state list_tools returns and never raises; an enabled
\* operation whose schema generation fails is left out, and every other
\* enabled operation of the registry is returned.
C14_EnumerateSkipsOnlyFailingSchemas ==
    (phase = "Ready" /\ Listed) =>
        /\ response.outcome = "return"
        /\ \A n \in RegistryNames :
              n \in Names(response.tools)
                 <=> (Contains(enabled_tool_names, n)
                         /\ n \notin response.schema_fails)

\* Two operations are enabled, the schema of the first one fails, and the
\* second one is returned.
C14_Witness ==
    /\ phase = "Ready" /\ Listed
    /\ \A n \in RegistryNames : Contains(enabled_tool_names, n)
    /\ response.schema_fails = {get_tool_definitions[1]}
    /\ response.tools = <<IntrospectionName, get_tool_definitions[2]>>

\* ------------------------------------------------------------------ C15
\* The entries of a list_tools result other than the introspection entry.
DomainTools(tools) == SelectSeq(tools, LAMBDA n : n # IntrospectionName)

\* The place of a name in the registry.
RegistryIndex(name) ==
    CHOOSE i \in DOMAIN get_tool_definitions : get_tool_definitions[i] = name

\* C15: without schema failures, the domain operations list_tools returns are
\* the registry operations named in the active package's list, each once and
\* in registry order, whatever the order of the list, its duplicates and its
\* unknown names; an unknown name is never returned.
C15_EnumerateIsRegistryFilteredByMembership ==
    (phase = "Ready" /\ Listed /\ response.schema_fails = {}) =>
        LET domain == DomainTools(response.tools)
            active == IF current_package_name \in DOMAIN package_definitions
                      THEN package_definitions[current_package_name]
                      ELSE EmptyList
        IN  /\ Names(domain)
                  = {n \in RegistryNames : Contains(active, n)}
            /\ \A i, j \in DOMAIN domain :
                  i < j => RegistryIndex(domain[i]) < RegistryIndex(domain[j])
            /\ UnknownTool \notin Names(response.tools)

\* The list names the registry's operations in reverse order.
C15_Witness ==
    /\ phase = "Ready" /\ Listed /\ response.schema_fails = {}
    /\ current_package_name = "full"
    /\ package_definitions["full"].items
          = <<get_tool_definitions[2], get_tool_definitions[1]>>
    /\ DomainTools(response.tools) = get_tool_definitions

\* ------------------------------------------------------------------ C16
CalledIntrospection ==
    phase = "Ready" /\ Called /\ response.request.name = IntrospectionName

\* C16 as stated: a call of 'list_tool_packages' fails with the 'none'
\* package error when the active package is 'none'; in every other case it
\* returns a text; it never fails with 'Unknown tool'.
C16_IntrospectionDisabledOnlyUnderNone ==
    CalledIntrospection =>
        /\ ~OperationNotFound(response)
        /\ IF current_package_name = "none"
           THEN CapabilityDisabled(response)
           ELSE response.outcome = "return" /\ response.text.form = "json"

\* ------------------------------------------------------------------ C17
\* C17: the dict a call of 'list_tool_packages' returns has the active
\* package name as current_package and exactly the keys of the loaded
\* definitions, which are the keys of the file's mapping, as
\* available_packages.
C17_IntrospectionReportsSessionState ==
    (CalledIntrospection /\ response.outcome = "return") =>
        /\ current_package_name # "none"
        /\ response.text.details.current_package = current_package_name
        /\ response.text.details.available_packages
              = DOMAIN package_definitions
        /\ response.text.details.available_packages = DOMAIN FileDefinitions

\* The report of a session whose file defines two packages.
C17_Witness ==
    /\ CalledIntrospection /\ response.outcome = "return"
    /\ Cardinality(DOMAIN package_definitions) = 2
    /\ response.text.details.current_package = "read_only"
    /\ response.text.details.available_packages = DOMAIN package_definitions

\* ------------------------------------------------------------------ C18
\* C18: once the server is Ready, no list_tools or call_tool call, whatever
\* its outcome, changes the active package name, the enabled list, the
\* package definitions or the registry, and the server stays Ready; what a
\* call gives back is determined by that state and the call's inputs
\* (name, arguments, backend behaviour, failing schemas) alone.
C18_SessionStateFrozenAfterInit ==
    [][phase = "Ready" =>
          /\ phase' = "Ready"
          /\ UNCHANGED <<package_definitions, enabled_tool_names,
                         current_package_name, tool_definitions>>
          /\ response'.op = "list_tools" =>
                response' = ListToolsImpl(current_package_name,
                                enabled_tool_names, tool_definitions,
                                response'.schema_fails)
          /\ (response'.op = "call_tool" /\ response'.executed = 1) =>
                response' = CallToolImpl(current_package_name,
                                enabled_tool_names, package_definitions,
                                tool_definitions, response'.request,
                                response'.backend)]_vars

\* A call failed in the implementation and the server is still Ready.
C18_Witness ==
    /\ phase = "Ready"
    /\ Called
    /\ ExecutionFailed(response)
    /\ response.executed = 1
    /\ tool_definitions = get_tool_definitions

\* ------------------------------------------------------------------ C19
\* C19: when the backend request succeeds, list_cases returns success = True
\* and a 'cases' list with one entry per record of the 'result' list, in the
\* same order, each with the record's sys_id, number, description, state and
\* priority and with assigned_to flattened to the display_value of a
\* reference mapping; the message reports the length of 'cases'.
C19_ListCasesMirrorsBackendResult ==
    (response.op = "list_cases" /\ response.reply.kind = "ok") =>
        LET records == response.reply.result
            cases == response.result.cases
        IN  /\ response.result.raised = "none"
            /\ response.result.success = TRUE
            /\ Len(cases) = Len(records)
            /\ \A i \in DOMAIN records :
                  /\ cases[i].number = records[i].number
                  /\ cases[i].sys_id = records[i].sys_id
                  /\ cases[i].description = records[i].description
                  /\ cases[i].state = records[i].state
                  /\ cases[i].priority = records[i].priority
                  /\ records[i].assigned_to.kind = "dict" =>
                        cases[i].assigned_to
                           = records[i].assigned_to.display_value
            /\ response.result.message.template = "Found {} cases"
            /\ response.result.message.value = ToString(Len(cases))

\* Two records, the second one with a reference mapping as assigned_to.
C19_Witness ==
    /\ response.op = "list_cases"
    /\ response.reply.kind = "ok"
    /\ Len(response.reply.result) = 2
    /\ response.reply.result[1].number # response.reply.result[2].number
    /\ response.reply.result[2].assigned_to = Reference("Agent")
    /\ response.result.cases[2].assigned_to = "Agent"
    /\ response.result.message.value = "2"

C21_AtMostOneRequestPerCall ==
    CaseCalled => Len(response.result.requests) <= 1

\* ------------------------------------------------------------------ C24
\* C24: when the backend answers create_case's POST with the result
\* {sys_id: s, number: n}, the serialized CaseResponse is indent-2 JSON whose
\* members are success = true, case_id = s and case_number = n.
C24_CreateCaseReportsIdAndNumber ==
    (response.op = "normalized" /\ response.tool = "create_case"
        /\ response.reply.kind = "ok") =>
        /\ response.text.outcome = "return"
        /\ response.text.text.form = "json"
        /\ MemberIs(response.text.text.pairs, "success", "true")
        /\ MemberIs(response.text.text.pairs, "case_id",
                    response.reply.record.sys_id)
        /\ MemberIs(response.text.text.pairs, "case_number",
                    response.reply.record.number)

\* The backend stored the case as abc / CASE001.
C24_Witness ==
    /\ response.op = "normalized" /\ response.tool = "create_case"
    /\ response.reply = [kind |-> "ok",
                         record |-> [sys_id |-> "abc", number |-> "CASE001"]]
    /\ MemberIs(response.text.text.pairs, "case_id", "abc")
    /\ MemberIs(response.text.text.pairs, "case_number", "CASE001")

\* ------------------------------------------------------------------ C30
\* A request the operation issued raised a requests.RequestException.
RequestErrorRaised ==
    IF ByNumber
    THEN \/ response.lookup.kind \in TransportFailures
         \/ response.lookup.kind = "ok"
               /\ response.reply.kind \in TransportFailures
    ELSE response.reply.kind \in TransportFailures

\* C30: when a backend request raises a request error, the case operation
\* returns success = False with a message (list_cases also with an empty
\* 'cases' list) and does not raise; in update_case and get_case with a case
\* number, a lookup that fails or finds no record gives success = False and
\* the update or fetch request is not issued.
C30_CaseOperationsReportFailureAsValue ==
    /\ (CaseCalled /\ RequestErrorRaised) =>
          /\ response.result.raised = "none"
          /\ response.result.success = FALSE
          /\ response.result.message.template # ""
          /\ response.tool = "list_cases" => response.result.cases = <<>>
    /\ (CaseCalled /\ ByNumber
           /\ response.lookup.kind \in TransportFailures \cup {"empty"}) =>
          /\ response.result.raised = "none"
          /\ response.result.success = FALSE
          /\ response.result.requests = <<"GET">>

\* update_case by number, the lookup timed out while the PUT would succeed.
C30_Witness ==
    /\ CaseCalled
    /\ response.tool = "update_case"
    /\ ByNumber
    /\ response.lookup.kind = "Timeout"
    /\ response.reply.kind = "ok"
    /\ response.result.success = FALSE
    /\ response.result.requests = <<"GET">>

\* ------------------------------------------------------------------ C22
\* C22 as stated: when the serialization of a tool's raw result fails, the
\* call fails with RuntimeError and does not return a text.
C22_SerializationFailureRaisesRuntimeError ==
    (phase = "Ready" /\ Called /\ response.backend.kind = "returns"
        /\ SerializeBody(response.backend.value).raised.type # "none") =>
        /\ response.outcome = "raise"
        /\ response.error = "RuntimeError"

\* ------------------------------------------------------------------ C23
\* C23: impl_func runs at most once per call, and only when the name is in
\* the registry, in the enabled list and the arguments were parsed; the
\* registry test comes first, then the enabled test, then the parsing; a call
\* rejected by one of them has not run impl_func, and a call whose impl_func
\* raised has run it once.
C23_ImplementationRunsOnceAfterAllChecks ==
    (phase = "Ready" /\ Called
        /\ response.request.name # IntrospectionName) =>
        LET name == response.request.name
            known == InRegistry(tool_definitions, name)
            enabled == Contains(enabled_tool_names, name)
            parsed == response.request.arguments = "valid"
        IN  /\ response.executed \in {0, 1}
            /\ response.executed = 1 <=> (known /\ enabled /\ parsed)
            /\ response.executed = 0 <=> response.backend = NotCalled
            /\ ~known => OperationNotFound(response)
            /\ (known /\ ~enabled) => CapabilityDisabled(response)
            /\ (known /\ enabled /\ ~parsed) => InvalidArguments(response)
            /\ (OperationNotFound(response) \/ CapabilityDisabled(response)
                   \/ InvalidArguments(response)) => response.executed = 0
            /\ ExecutionFailed(response) => response.executed = 1

\* An enabled operation was called with arguments that fail validation.
C23_Witness ==
    /\ phase = "Ready" /\ Called
    /\ InRegistry(tool_definitions, response.request.name)
    /\ Contains(enabled_tool_names, response.request.name)
    /\ response.request.arguments = "fails_validation"
    /\ InvalidArguments(response)
    /\ response.executed = 0

\* ------------------------------------------------------------------ C25
\* The name passes the gating of call_tool: a call with valid arguments and a
\* working implementation does not fail with 'Unknown tool' nor with one of
\* the two 'not enabled' / 'not available' errors.
PassesGating(name) ==
    LET r == CallToolImpl(current_package_name, enabled_tool_names,
                          package_definitions, tool_definitions,
                          Request(name, "valid"),
                          [kind |-> "returns", value |-> PlainText, str |-> ""])
    IN  ~OperationNotFound(r) /\ ~CapabilityDisabled(r)

\* C25 as stated: in every Ready state a name passes the gating of call_tool
\* if and only if list_tools returns an entry with that name; an operation
\* left out because its schema could not be generated cannot be called.
C25_EnumerateAndInvokeAgree ==
    (phase = "Ready" /\ Listed /\ response.outcome = "return") =>
        \A name \in CallNames :
            PassesGating(name) <=> name \in Names(response.tools)

\* ------------------------------------------------------------------ C26
\* C26 as stated: whenever the introspection call returns its report, the
\* current_package of the report is one of its available_packages, for every
\* definitions mapping, the empty one included, and every requested
\* identifier, the empty string included.
C26_CurrentPackageIsAvailable ==
    (CalledIntrospection /\ response.outcome = "return") =>
        response.text.details.current_package
            \in response.text.details.available_packages

\* ------------------------------------------------------------------ C27
\* The inputSchema list_tools advertises for list_tool_packages (lines
\* 190-198): 'random_string' is required.
IntrospectionRequired == {"random_string"}

\* The keys of the arguments mapping of a call of list_tool_packages.
SuppliedKeys(arguments) ==
    IF arguments = "valid" THEN {"random_string"} ELSE {}

\* C27 as stated: a call of list_tool_packages whose arguments lack the
\* required 'random_string' fails with the invalid-arguments error and does
\* not return the package report.
C27_IntrospectionValidatesArguments ==
    (CalledIntrospection /\ current_package_name # "none"
        /\ ~(IntrospectionRequired \subseteq
                SuppliedKeys(response.request.arguments))) =>
        InvalidArguments(response)

\* ------------------------------------------------------------------ C29
\* The tokens of the variable's value that are not whitespace.
Core(env) == SelectSeq(env.value, LAMBDA t : t # WS)

\* C29: in every state after __init__ ran _determine_enabled_tools, the
\* active package name is 'full', 'none' or a key of the loaded definitions;
\* the enabled list is definitions[active package] when that name is a key
\* and is empty otherwise; a requested identifier that is a key up to
\* surrounding whitespace selects that key.
C29_ActivePackageAndEnabledListAgree ==
    Constructed =>
        /\ current_package_name
              \in {"full", "none"} \cup DOMAIN package_definitions
        /\ IF current_package_name \in DOMAIN package_definitions
           THEN enabled_tool_names = package_definitions[current_package_name]
           ELSE enabled_tool_names = EmptyList
        /\ (MCP_TOOL_PACKAGE.set /\ Len(Core(MCP_TOOL_PACKAGE)) = 1
               /\ Core(MCP_TOOL_PACKAGE)[1] \in DOMAIN package_definitions) =>
              current_package_name = Core(MCP_TOOL_PACKAGE)[1]

\* ' read_only ' was requested and read_only is a package of the file.
C29_Witness ==
    /\ phase = "Ready"
    /\ MCP_TOOL_PACKAGE.set
    /\ Len(MCP_TOOL_PACKAGE.value) > 1
    /\ Head(MCP_TOOL_PACKAGE.value) = WS
    /\ current_package_name = "read_only"
    /\ enabled_tool_names = package_definitions["read_only"]
    /\ enabled_tool_names # EmptyList

\* ------------------------------------------------------------------ C28
\* C28 as stated: under a package that lists a case operation, list_tools
\* offers it and a call of it is not rejected with 'Unknown tool'.
C28_CaseOperationsReachable ==
    /\ (phase = "Ready" /\ Listed /\ response.schema_fails = {}) =>
          \A name \in CaseToolNames :
              Contains(enabled_tool_names, name)
                  => name \in Names(response.tools)
    /\ (phase = "Ready" /\ Called
           /\ response.request.name \in CaseToolNames
           /\ Contains(enabled_tool_names, response.request.name)) =>
          ~OperationNotFound(response)

====
